---- MODULE Spec2Model ----
(***************************************************************************)
(* Model of the IR graph of hhat_lang (core/code): the identity IRHash,    *)
(* the symbol and reference tables, the graph node IRNode, the perfect     *)
(* hash function (PHF) of core/code/utils.py, the PHF-indexed NodeSet and  *)
(* the graph orchestrator IRGraph with the lookups of core/code/tools.py.  *)
(***************************************************************************)
EXTENDS Integers, Sequences, FiniteSets, TLC

\* Bound of the model: number of add_node / add_main_node calls of one run.
MaxAdds == 3

\* Option values: Python's None is the empty sequence, a value x is <<x>>.
None == <<>>
Some(x) == <<x>>

----------------------------------------------------------------------------
(* Python integer operators used by the PHF. Python integers are unbounded *)
(* and two's complement for the bitwise operators.                          *)

\* p >> r on a Python int: floor(p / 2^r) (arithmetic shift).
RECURSIVE ShiftRight(_, _)
ShiftRight(p, r) ==
    IF r = 0 \/ p = 0 \/ p = -1 THEN p ELSE ShiftRight(p \div 2, r - 1)

\* x ^ y for x, y >= 0.
RECURSIVE XorNat(_, _)
XorNat(x, y) ==
    IF x = 0 THEN y
    ELSE IF y = 0 THEN x
    ELSE (((x % 2) + (y % 2)) % 2) + (2 * XorNat(x \div 2, y \div 2))

\* x ^ y on Python ints (two's complement with infinite sign extension):
\* ~x = -x - 1, and x ^ y = ~x ^ ~y = ~(~x ^ y).
BitXor(x, y) ==
    IF x >= 0 /\ y >= 0 THEN XorNat(x, y)
    ELSE IF x < 0 /\ y < 0 THEN XorNat(-x - 1, -y - 1)
    ELSE IF x < 0 THEN -XorNat(-x - 1, y) - 1
    ELSE -XorNat(x, -y - 1) - 1

----------------------------------------------------------------------------
(* Perfect hash function, core/code/utils.py                                *)

PHF_A_LIMIT == 1000000
\* 127 if sys.maxsize > 2**64 else 61: sys.maxsize is 2**63 - 1 at most
PHF_R_LIMIT == 61

get_phf_prime(tuple_len) ==
    IF tuple_len <= 32 THEN 37
    ELSE IF tuple_len <= 64 THEN 67
    ELSE IF tuple_len <= 256 THEN 257
    ELSE IF tuple_len <= 4096 THEN 4099
    ELSE IF tuple_len <= 16384 THEN 16411
    ELSE 1048583

\* ResultPHF
ResultPHF(a, r, prime, n) == [a |-> a, r |-> r, prime |-> prime, n |-> n]

get_hash_with_args(value, a, r, n, prime) ==
    LET p == value * a
    IN  ((BitXor(p, ShiftRight(p, r))) % prime) % n

\* get_hash without the reduction modulo the prime
get_hash_no_prime(value, phf) ==
    LET p == value * phf.a
    IN  (BitXor(p, ShiftRight(p, phf.r))) % phf.n

get_hash(value, phf) ==
    LET p == value * phf.a
    IN  ((BitXor(p, ShiftRight(p, phf.r))) % phf.prime) % phf.n

----------------------------------------------------------------------------
(* State                                                                    *)

VARIABLES
    seed,        \* the interpreter's string-hash seed (fixed for a process)
    is_built,    \* IRGraph._is_built
    nodes,       \* IRGraph._nodes : NodeSet [data, phf]
    tmp_nodes,   \* IRGraph._tmp_nodes : tuple of IRNode
    main_node,   \* IRGraph._main_node : None until add_main_node sets it
    ret,         \* outcome of the last call: [op, status, err, val]
    adds         \* number of add_node / add_main_node calls so far

\* A symbol table of its own, for the operations of the tables themselves
VARIABLES
    symbol_table,   \* SymbolTable: [type, fn, const, metamod, modifier]
    table_adds,     \* number of add calls made on its tables so far
    table_call      \* the arguments of the last call on one of its tables

\* The discovery of the units of a project by the parser
VARIABLES
    call_stack,     \* the nested parse calls: [path, pc, loaded] each
    discovery       \* the discovery under way or ended: [root, status,
                    \* first: the size of the building set at its start]

\* A call of gen_phf followed candidate by candidate
VARIABLES
    search          \* [items, a, r, tried, status, res]

table_vars == <<symbol_table, table_adds, table_call>>

import_vars == <<call_stack, discovery>>

graph_vars == <<seed, is_built, nodes, tmp_nodes, main_node, adds>>

vars == <<seed, is_built, nodes, tmp_nodes, main_node, ret, adds,
          symbol_table, table_adds, table_call, call_stack, discovery,
          search>>

----------------------------------------------------------------------------
(* Paths and their hash. hash(Path) is Python's seeded string hash: any     *)
(* value of the machine word except -1, and two paths may collide.          *)

Paths == {"a", "b", "c", "d"}

HashSeeds == {1, 2}

\* the paths of the built-in modules
BuiltinPaths == {"m", "t", "u"}

\* the paths of the source files of a project
FilePaths == {"p", "q", "r", "s", "x", "y", "z", "w", "v"}

HashTable ==
    <<[a |-> 3, b |-> -4, c |-> 38, d |-> 0, m |-> 11, t |-> -9, u |-> 25,
       p |-> 7, q |-> -12, r |-> 19, s |-> 4, x |-> -2, y |-> 30,
       z |-> 16, w |-> -20, v |-> 9],
      [a |-> -7, b |-> 6, c |-> 2, d |-> 6, m |-> 5, t |-> 14, u |-> -3,
       p |-> 8, q |-> 8, r |-> -11, s |-> 21, x |-> 13, y |-> -6,
       z |-> 1, w |-> 21, v |-> -15]>>

\* hash(path) under the seed sd
PyHashOf(sd, path) == HashTable[sd][path]

\* hash(path) in the running process
PyHash(path) == PyHashOf(seed, path)

----------------------------------------------------------------------------
(* Python dict / OrderedDict: a sequence of <<key, value>> pairs in         *)
(* insertion order.                                                         *)

DictKeys(d) == [i \in 1..Len(d) |-> d[i][1]]

DictHas(d, k) == \E i \in 1..Len(d) : d[i][1] = k

\* d.get(k, None)
DictGet(d, k) ==
    IF DictHas(d, k)
    THEN Some(d[CHOOSE i \in 1..Len(d) : d[i][1] = k][2])
    ELSE None

\* d[k] = v : an existing key keeps its position, a new key goes last
DictSet(d, k, v) ==
    IF DictHas(d, k)
    THEN [i \in 1..Len(d) |-> IF d[i][1] = k THEN <<k, v>> ELSE d[i]]
    ELSE Append(d, <<k, v>>)

----------------------------------------------------------------------------
(* Identity, core/code/abstract.py                                          *)

IRHashOf(sd, ir_path) == [key |-> ir_path, uid |-> PyHashOf(sd, ir_path)]

IRHash(ir_path) == IRHashOf(seed, ir_path)

\* IRHash.__eq__ / IRNode.__eq__ : equality of the hashes
HashEq(x, y) == x.uid = y.uid

----------------------------------------------------------------------------
(* Symbol tables, core/code/symbol_table.py                                 *)

FnHeader(fn_name, args_types) == [name |-> fn_name, args_types |-> args_types]

\* definition objects: the class and an id telling two objects apart
TD1 == [kind |-> "TypeDef", id |-> 1]
TD2 == [kind |-> "TypeDef", id |-> 2]
FD1 == [kind |-> "FnDef", id |-> 1]
BFD2 == [kind |-> "BuiltinFnDef", id |-> 2]
BFD3 == [kind |-> "BuiltinFnDef", id |-> 3]
MD1 == [kind |-> "ModifierDef", id |-> 1]

\* TypeTable.add that stores the data whether or not the name is known
TypeTableAddOverwrite(table, name, data) == DictSet(table, name, data)

\* TypeTable.add, name a Symbol and data a TypeDef
TypeTableAdd(table, name, data) ==
    IF ~DictHas(table, name) THEN DictSet(table, name, data) ELSE table

\* TypeTable.add with its argument test: [status, table]. An object is a
\* record whose field kind is its class.
TypeTableAddChecked(table, name, data) ==
    IF data.kind = "TypeDef"
    THEN [status |-> "ok", table |-> TypeTableAdd(table, name, data)]
    ELSE [status |-> "ValueError", table |-> table]

\* TypeTable.get
TypeTableGet(table, name) == DictGet(table, name)

\* ConstTable.add: [status, table]. Reading item.is_constant raises
\* AttributeError on an object that has no such attribute (class DataDef
\* defines name, type, is_quantum, kind, borrowed and data only). The raise
\* of ValueError follows the if statement and is reached on both of its
\* branches.
ConstTableAdd(table, item) ==
    IF item.kind = "DataDef" /\ ~item.has_is_constant
    THEN [status |-> "AttributeError", table |-> table]
    ELSE [status |-> "ValueError",
          table |-> IF item.kind = "DataDef" /\ item.is_constant
                    THEN DictSet(table, item.name, item)
                    ELSE table]

\* ConstTable.get
ConstTableGet(table, item) == DictGet(table, item)

\* FnTable.add that assigns a fresh overload map even when the name is known
FnTableAddOverwrite(table, fn_entry, data) ==
    DictSet(table, fn_entry.name, <<<<fn_entry, data>>>>)

\* FnTable.add with a FnHeader entry
FnTableAdd(table, fn_entry, data) ==
    IF DictHas(table, fn_entry.name)
    THEN DictSet(table, fn_entry.name,
                 DictSet(DictGet(table, fn_entry.name)[1], fn_entry, data))
    ELSE DictSet(table, fn_entry.name, <<<<fn_entry, data>>>>)

\* FnTable.get with a bare name: table.get(name, None)
FnTableGetName(table, name) == DictGet(table, name)

\* FnTable.get with a FnHeader: [status, val]; raises if the name is absent
FnTableGetHeader(table, fn_entry) ==
    IF DictHas(table, fn_entry.name)
    THEN [status |-> "ok",
          val |-> DictGet(DictGet(table, fn_entry.name)[1], fn_entry)]
    ELSE [status |-> "ValueError", val |-> None]

FnHeaderDef(fn_name, fn_type, args_names, args_types) ==
    [name |-> fn_name, type |-> fn_type, args_names |-> args_names,
     args_types |-> args_types]

\* FnTable.add with its argument tests: [status, table]. entry_kind is the
\* class of fn_entry. Data of another class is passed over without an error.
FnTableAddChecked(table, entry_kind, fn_entry, data) ==
    IF data.kind \in {"FnDef", "BuiltinFnDef"}
    THEN IF entry_kind = "FnHeader"
         THEN [status |-> "ok", table |-> FnTableAdd(table, fn_entry, data)]
         ELSE IF entry_kind = "FnHeaderDef"
         THEN [status |-> "ok",
               table |-> FnTableAdd(table,
                                    FnHeader(fn_entry.name, fn_entry.args_types),
                                    data)]
         ELSE [status |-> "ValueError", table |-> table]
    ELSE [status |-> "ok", table |-> table]

\* MetaModTable.add: the code of FnTable.add, for data of class FnDef only
MetaModTableAddChecked(table, entry_kind, fn_entry, data) ==
    IF data.kind = "FnDef"
    THEN IF entry_kind = "FnHeader"
         THEN [status |-> "ok", table |-> FnTableAdd(table, fn_entry, data)]
         ELSE IF entry_kind = "FnHeaderDef"
         THEN [status |-> "ok",
               table |-> FnTableAdd(table,
                                    FnHeader(fn_entry.name, fn_entry.args_types),
                                    data)]
         ELSE [status |-> "ValueError", table |-> table]
    ELSE [status |-> "ok", table |-> table]

\* ModifierTable.add: one test, no else branch
ModifierTableAddChecked(table, entry_kind, fn_entry, data) ==
    IF data.kind = "ModifierDef" /\ entry_kind = "FnHeader"
    THEN [status |-> "ok", table |-> FnTableAdd(table, fn_entry, data)]
    ELSE [status |-> "ok", table |-> table]

\* SymbolTable(): five empty tables
SymbolTable ==
    [type |-> <<>>, fn |-> <<>>, const |-> <<>>, metamod |-> <<>>,
     modifier |-> <<>>]

\* TypeTable.__contains__ / FnTable.__contains__ for a bare name
TypeTableContains(table, item) == DictHas(table, item)
FnTableContainsName(table, item) == DictHas(table, item)

\* TypeTable.__contains__ for an item that is not a name (a FnHeader, a
\* Path): the keys of the table are names, no key equals the item
TypeTableContainsOther(table, item) == FALSE

\* FnTable.__contains__ for a FnHeader: self._table[item.name] raises KeyError
\* when the name is absent
FnTableContainsHeader(table, item) ==
    IF DictHas(table, item.name)
    THEN [status |-> "ok", val |-> DictHas(DictGet(table, item.name)[1], item)]
    ELSE [status |-> "KeyError", val |-> FALSE]

\* FnTable.__contains__ for anything else (case _)
FnTableContainsOther(table, item) == FALSE

\* BaseIRModule.__contains__ for a FnHeader: [status, val]
ModuleContainsHeader(module, item) ==
    IF TypeTableContainsOther(module.symbol_table.type, item)
    THEN [status |-> "ok", val |-> TRUE]
    ELSE FnTableContainsHeader(module.symbol_table.fn, item)

\* BaseIRModule.__contains__ for a Path
ModuleContainsPath(module, item) ==
    \/ TypeTableContainsOther(module.symbol_table.type, item)
    \/ FnTableContainsOther(module.symbol_table.fn, item)

\* BaseIRModule.__contains__ for a bare name
ModuleContains(module, item) ==
    \/ TypeTableContains(module.symbol_table.type, item)
    \/ FnTableContainsName(module.symbol_table.fn, item)

----------------------------------------------------------------------------
(* Reference tables, core/code/abstract.py and build_reftable of tools.py   *)

\* RefTypeTable.add_ref / RefFnTable.add_ref
RefAdd(sd, table, name, ir_path) == DictSet(table, name, IRHashOf(sd, ir_path))

RECURSIVE build_refs(_, _)
build_refs(sd, pairs) ==
    IF pairs = <<>> THEN <<>>
    ELSE LET n == Len(pairs)
         IN  RefAdd(sd, build_refs(sd, SubSeq(pairs, 1, n - 1)),
                    pairs[n][1], pairs[n][2])

build_reftable(sd, types, fns) ==
    [types |-> build_refs(sd, types), fns |-> build_refs(sd, fns)]

----------------------------------------------------------------------------
(* Compilation units (IR = ref_table + IRModule[path, symbol_table]) handed *)
(* to the graph by the parser. Each is built by the table operations from   *)
(* the insertions listed here.                                              *)

HAddII == FnHeader("add", <<"int", "int">>)
HAddFF == FnHeader("add", <<"f64", "f64">>)
HSubI  == FnHeader("sub", <<"int">>)

UnitIds == {"A", "B", "C", "D"}

UnitPath(id) ==
    CASE id = "A" -> "a" [] id = "B" -> "b" [] id = "C" -> "c"
      [] id = "D" -> "d"

\* the FnTable.add calls made for the unit, in order
FnAdds(id) ==
    CASE id = "A"  -> <<<<HAddII, "a.add_ii">>, <<HSubI, "a.sub_i">>,
                        <<HAddFF, "a.add_ff">>, <<HAddII, "a.add_ii_v2">>>>
      [] id = "B"  -> <<<<HAddFF, "b.add_ff">>, <<HAddII, "b.add_ii">>>>
      [] id = "C"  -> <<>>
      [] id = "D"  -> <<<<HSubI, "d.sub_i">>, <<HAddFF, "d.add_ff">>>>

\* the TypeTable.add calls made for the unit, in order
TypeAdds(id) ==
    CASE id = "A"  -> <<<<"T", "a.T">>>>
      [] id = "B"  -> <<>>
      [] id = "C"  -> <<<<"add", "c.add">>>>
      [] id = "D"  -> <<<<"U", "d.U">>, <<"U", "d.U_again">>>>

\* the unit's references: symbol -> path of the defining unit
TypeRefs(id) ==
    CASE id = "C" -> <<<<"U", "d">>>>
      [] OTHER -> <<>>

FnRefs(id) ==
    CASE id = "B" -> <<<<HAddII, "a">>>>
      [] OTHER -> <<>>

RECURSIVE FillTypeTable(_)
FillTypeTable(addsSeq) ==
    IF addsSeq = <<>> THEN <<>>
    ELSE LET n == Len(addsSeq)
         IN  TypeTableAdd(FillTypeTable(SubSeq(addsSeq, 1, n - 1)),
                          addsSeq[n][1], addsSeq[n][2])

RECURSIVE FillFnTable(_)
FillFnTable(addsSeq) ==
    IF addsSeq = <<>> THEN <<>>
    ELSE LET n == Len(addsSeq)
         IN  FnTableAdd(FillFnTable(SubSeq(addsSeq, 1, n - 1)),
                        addsSeq[n][1], addsSeq[n][2])

\* IR(ref_table, IRModule(path, symboltable)) built under the seed sd
UnitOf(sd, id) ==
    [id |-> id,
     module |-> [path |-> UnitPath(id),
                 symbol_table |-> [type |-> FillTypeTable(TypeAdds(id)),
                                   fn |-> FillFnTable(FnAdds(id))]],
     ref_table |-> build_reftable(sd, TypeRefs(id), FnRefs(id))]

\* the units, built once per seed
UnitTable == [sd \in HashSeeds |-> [id \in UnitIds |-> UnitOf(sd, id)]]

\* the unit `id` in the running process
Unit(id) == UnitTable[seed][id]

\* BaseIRModule.uid
ModuleUid(module) == PyHash(module.path)

----------------------------------------------------------------------------
(* Built-in modules, core/compiler/builtin_modules.py. The two registries   *)
(* map a module path to a dict of its objects; key_kind is the class of the *)
(* dict's keys. The decorators that fill them store FnHeader ->             *)
(* BuiltinFnDef and Symbol -> TypeDef, so no add of the loop raises.        *)

builtin_fns_path ==
    << <<"m", [key_kind |-> "FnHeader",
               objs |-> << <<HAddII, BFD2>>, <<HAddFF, BFD3>> >>]>> >>

builtin_types ==
    << <<"t", [key_kind |-> "Symbol",
               objs |-> << <<"T", TD1>>, <<"U", TD2>> >>]>>,
       <<"u", [key_kind |-> "Symbol", objs |-> << <<"T", TD2>> >>]>> >>

\* _get_table: the table of st chosen by the class of the first key
get_table(value) == IF value.key_kind = "FnHeader" THEN "fn" ELSE "type"

\* the loop `for name, obj in mod_objs.items(): table.add(name, obj)`
RECURSIVE add_objs(_, _, _)
add_objs(st, which, objs) ==
    IF objs = <<>> THEN st
    ELSE LET n == Len(objs)
             prev == add_objs(st, which, SubSeq(objs, 1, n - 1))
         IN  IF which = "fn"
             THEN [prev EXCEPT !.fn = FnTableAddChecked(prev.fn, "FnHeader",
                                                        objs[n][1],
                                                        objs[n][2]).table]
             ELSE [prev EXCEPT !.type = TypeTableAddChecked(prev.type,
                                                            objs[n][1],
                                                            objs[n][2]).table]

\* one turn of the loop of add_builtin_modules: the IR object made for
\* mod_path; the object is known to the nodes by its path
builtin_ir(sd, mod_path, mod_objs) ==
    [id |-> mod_path,
     module |-> [path |-> mod_path,
                 symbol_table |-> add_objs(SymbolTable, get_table(mod_objs),
                                           mod_objs.objs)],
     ref_table |-> build_reftable(sd, <<>>, <<>>)]

\* the IR objects of the built-in modules, built once per seed
BuiltinUnitTable ==
    [sd \in HashSeeds |->
        [path \in BuiltinPaths |->
            builtin_ir(sd, path,
                       DictGet(builtin_fns_path \o builtin_types, path)[1])]]

----------------------------------------------------------------------------
(* The source files of a project, dialects/heather/parsing/ir_visitor.py.   *)
(* A file is what the visitor reads from it: its use() statements in order, *)
(* the types and functions it declares, and whether it has a main body.     *)
(* p and q import a type from each other and x and y a function; r, z and v *)
(* import from files that import nothing; s has no type V and w no sub.     *)

Import(kind, path, name) == [kind |-> kind, path |-> path, name |-> name]

\* the imports of the file: the importer, the module path and the name
FileImports(path) ==
    CASE path = "p" -> <<Import("type", "q", "U")>>
      [] path = "q" -> <<Import("type", "p", "T")>>
      [] path = "r" -> <<Import("type", "s", "T"), Import("type", "s", "V")>>
      [] path = "x" -> <<Import("fn", "y", "add")>>
      [] path = "y" -> <<Import("fn", "x", "sub")>>
      [] path = "z" -> <<Import("type", "s", "T"), Import("fn", "w", "add")>>
      [] path = "v" -> <<Import("fn", "w", "sub")>>
      [] OTHER -> <<>>

\* the type definitions of the file, in order
FileTypes(path) ==
    CASE path = "p" -> <<<<"T", "p.T">>>>
      [] path = "q" -> <<<<"U", "q.U">>>>
      [] path = "s" -> <<<<"T", "s.T">>, <<"U", "s.U">>>>
      [] OTHER -> <<>>

\* the function definitions of the file, in order
FileFns(path) ==
    CASE path = "x" -> <<<<HSubI, "x.sub_i">>>>
      [] path = "y" -> <<<<HAddII, "y.add_ii">>>>
      [] path = "w" -> <<<<HAddII, "w.add_ii">>, <<HAddFF, "w.add_ff">>>>
      [] OTHER -> <<>>

\* the file has a main body
FileHasMain(path) == path = "z"

\* the headers named `name` of the file, as get_fns returns them
RECURSIVE FnsNamed(_, _)
FnsNamed(fns, name) ==
    IF fns = <<>> THEN <<>>
    ELSE LET n == Len(fns)
             prev == FnsNamed(SubSeq(fns, 1, n - 1), name)
         IN  IF fns[n][1].name = name THEN Append(prev, fns[n][1])
             ELSE prev

\* the references the imports from index i on resolve to: ImportDicts
RECURSIVE FileRefs(_, _, _)
FileRefs(imports, i, kind) ==
    IF i > Len(imports) THEN <<>>
    ELSE LET imp == imports[i]
             here == IF imp.kind # kind THEN <<>>
                     ELSE IF kind = "type" THEN <<<<imp.name, imp.path>>>>
                     ELSE [k \in 1..Len(FnsNamed(FileFns(imp.path), imp.name))
                              |-> <<FnsNamed(FileFns(imp.path), imp.name)[k],
                                    imp.path>>]
         IN  here \o FileRefs(imports, i + 1, kind)

\* build_ir of the visited file under the seed sd
FileUnitOf(sd, path) ==
    [id |-> path,
     module |-> [path |-> path,
                 symbol_table |-> [type |-> FillTypeTable(FileTypes(path)),
                                   fn |-> FillFnTable(FileFns(path))]],
     ref_table |-> build_reftable(sd, FileRefs(FileImports(path), 1, "type"),
                                  FileRefs(FileImports(path), 1, "fn"))]

\* the units of the files, built once per seed
FileUnitTable ==
    [sd \in HashSeeds |-> [path \in FilePaths |-> FileUnitOf(sd, path)]]

----------------------------------------------------------------------------
(* Graph node, core/code/ir_graph.py                                        *)

\* the node refers to the IR object it wraps: the reference is the unit's id
IRNode(node) ==
    [uid |-> ModuleUid(node.module),
     path |-> node.module.path,
     irhash |-> IRHash(node.module.path),
     ir |-> node.id]

\* the IR object a node's reference stands for
IR(ref) ==
    IF ref \in UnitIds THEN Unit(ref)
    ELSE IF ref \in BuiltinPaths THEN BuiltinUnitTable[seed][ref]
    ELSE FileUnitTable[seed][ref]

\* hash(obj) for an IRNode or IRHash: __hash__ returns the uid, and the
\* builtin maps a __hash__ of -1 to -2
ObjHash(obj) == IF obj.uid = -1 THEN -2 ELSE obj.uid

----------------------------------------------------------------------------
(* Perfect hash function search, core/code/utils.py                         *)

\* the loop body of _gen_res_a_r_phf from item i on; res_list holds options
RECURSIVE PlaceFrom(_, _, _, _, _, _, _)
PlaceFrom(group_tuple, i, res_list, tuple_len, a, r, prime) ==
    IF i > Len(group_tuple)
    THEN res_list
    ELSE LET obj == group_tuple[i]
             h == get_hash_with_args(ObjHash(obj), a, r, tuple_len, prime)
         IN  IF /\ ~\E j \in 1..Len(res_list) :
                       res_list[j] # None /\ HashEq(res_list[j][1], obj)
                /\ res_list[h + 1] = None
             THEN PlaceFrom(group_tuple, i + 1,
                            [res_list EXCEPT ![h + 1] = Some(obj)],
                            tuple_len, a, r, prime)
             ELSE <<>>

\* _gen_res_a_r_phf without the test that the slot is free
gen_res_a_r_phf_overwrite(group_tuple, tuple_len, a, r, prime) ==
    [k \in 1..tuple_len |->
        group_tuple[CHOOSE i \in 1..tuple_len :
            \/ get_hash_with_args(ObjHash(group_tuple[i]), a, r, tuple_len,
                                  prime) = k - 1
            \/ /\ \A j \in 1..tuple_len :
                      get_hash_with_args(ObjHash(group_tuple[j]), a, r,
                                         tuple_len, prime) # k - 1
               /\ i = 1]]

\* _gen_res_a_r_phf that returns the items as they came, not by slot
gen_res_a_r_phf_as_given(group_tuple, tuple_len, a, r, prime) ==
    LET res_list == PlaceFrom(group_tuple, 1, [k \in 1..tuple_len |-> None],
                              tuple_len, a, r, prime)
    IN  IF res_list # <<>> /\ \A k \in 1..Len(res_list) : res_list[k] # None
        THEN group_tuple
        ELSE <<>>

\* _gen_res_a_r_phf: the items ordered by slot, or () on a collision
gen_res_a_r_phf(group_tuple, tuple_len, a, r, prime) ==
    LET res_list == PlaceFrom(group_tuple, 1, [k \in 1..tuple_len |-> None],
                              tuple_len, a, r, prime)
    IN  IF res_list # <<>> /\ \A k \in 1..Len(res_list) : res_list[k] # None
        THEN [k \in 1..Len(res_list) |-> res_list[k][1]]
        ELSE <<>>

PhfFailure == [status |-> "ValueError", res |-> <<>>, phf |-> None]

\* inner loop of gen_phf: r from r0 upward for one a
RECURSIVE SearchR(_, _, _, _, _)
SearchR(group_tuple, tuple_len, a, r, prime) ==
    IF r >= PHF_R_LIMIT
    THEN PhfFailure
    ELSE LET res_list == gen_res_a_r_phf(group_tuple, tuple_len, a, r, prime)
         IN  IF res_list # <<>>
             THEN [status |-> "ok", res |-> res_list,
                   phf |-> Some(ResultPHF(a, r, prime, tuple_len))]
             ELSE SearchR(group_tuple, tuple_len, a, r + 1, prime)

\* outer loop of gen_phf: a from a0 upward
RECURSIVE SearchA(_, _, _, _)
SearchA(group_tuple, tuple_len, a, prime) ==
    IF a >= PHF_A_LIMIT
    THEN PhfFailure
    ELSE LET found == SearchR(group_tuple, tuple_len, a, 0, prime)
         IN  IF found.status = "ok"
             THEN found
             ELSE SearchA(group_tuple, tuple_len, a + 1, prime)

\* two items of the tuple are equal (same uid)
HasEqualItems(group_tuple) ==
    \E i, j \in 1..Len(group_tuple) :
        i # j /\ HashEq(group_tuple[i], group_tuple[j])

\* gen_phf whose search starts at a = 2
gen_phf_start_at_two(group_tuple) ==
    LET tuple_len == Len(group_tuple)
        prime == get_phf_prime(tuple_len)
    IN  IF HasEqualItems(group_tuple)
        THEN PhfFailure
        ELSE SearchA(group_tuple, tuple_len, 2, prime)

\* gen_phf. With two equal items every candidate (a, r) is rejected by the
\* `obj not in res_list` test whatever a and r are, so the exhausted search
\* is reported without walking the PHF_A_LIMIT * PHF_R_LIMIT candidates.
gen_phf(group_tuple) ==
    LET tuple_len == Len(group_tuple)
        prime == get_phf_prime(tuple_len)
    IN  IF HasEqualItems(group_tuple)
        THEN PhfFailure
        ELSE SearchA(group_tuple, tuple_len, 1, prime)

----------------------------------------------------------------------------
(* NodeSet, core/code/ir_graph.py                                           *)

NodeSet(data, phf) == [data |-> data, phf |-> phf]

\* NodeSet.__contains__ for an IRHash
NodeSetContainsHash(ns, item) ==
    \E i \in 1..Len(ns.data) : HashEq(item, ns.data[i].irhash)

\* NodeSet.__getitem__ that reduces the hash modulo the length, without the PHF
NodeSetGetItemNoPhf(ns, item) ==
    IF ns.phf # None
    THEN [status |-> "ok",
          val |-> Some(ns.data[(ObjHash(item) % Len(ns.data)) + 1])]
    ELSE [status |-> "ValueError", val |-> None]

\* NodeSet.__getitem__ for an IRHash: [status, val]
NodeSetGetItem(ns, item) ==
    IF ns.phf # None
    THEN [status |-> "ok",
          val |-> Some(ns.data[get_hash(ObjHash(item), ns.phf[1]) + 1])]
    ELSE [status |-> "ValueError", val |-> None]

\* NodeSet.__contains__ for a (path, name) pair
NodeSetContainsPairName(ns, path, symbol) ==
    [status |-> "ok",
     val |-> \E i \in 1..Len(ns.data) :
                 /\ path = ns.data[i].path
                 /\ ModuleContains(IR(ns.data[i].ir).module, symbol)]

\* NodeSet.__contains__ for a (path, FnHeader) pair, from node i on: the
\* first node of that path whose module holds the symbol answers True, and a
\* KeyError of the module's containment test ends the scan
RECURSIVE NodeSetContainsPairHeaderFrom(_, _, _, _)
NodeSetContainsPairHeaderFrom(ns, i, path, symbol) ==
    IF i > Len(ns.data)
    THEN [status |-> "ok", val |-> FALSE]
    ELSE IF path # ns.data[i].path
    THEN NodeSetContainsPairHeaderFrom(ns, i + 1, path, symbol)
    ELSE LET c == ModuleContainsHeader(IR(ns.data[i].ir).module, symbol)
         IN  IF c.status # "ok" \/ c.val
             THEN c
             ELSE NodeSetContainsPairHeaderFrom(ns, i + 1, path, symbol)

NodeSetContainsPairHeader(ns, path, symbol) ==
    NodeSetContainsPairHeaderFrom(ns, 1, path, symbol)

\* IRNode.__contains__ for a Path
IRNodeContainsPath(node, item) ==
    ModuleContainsPath(IR(node.ir).module, item) \/ item = node.path

----------------------------------------------------------------------------
(* IRGraph, core/code/ir_graph.py                                           *)

Result(op, status, err, val) ==
    [op |-> op, status |-> status, err |-> err, val |-> val]

\* _check_refs without the loop over the function references
check_refs_types_only(ns) ==
    \A i \in 1..Len(ns.data) :
        \A k \in 1..Len(IR(ns.data[i].ir).ref_table.types) :
            NodeSetContainsHash(ns, IR(ns.data[i].ir).ref_table.types[k][2])

\* IRGraph._check_refs over a node set
check_refs(ns) ==
    \A i \in 1..Len(ns.data) :
        LET ref_table == IR(ns.data[i].ir).ref_table
        IN  /\ \A k \in 1..Len(ref_table.types) :
                   NodeSetContainsHash(ns, ref_table.types[k][2])
            /\ \A k \in 1..Len(ref_table.fns) :
                   NodeSetContainsHash(ns, ref_table.fns[k][2])

\* the condition of IRGraph.build without the test of _is_built
build_guard_no_built_test(built, cur_tmp) == Len(cur_tmp) > 0

\* the condition of IRGraph.build: not built and some node to freeze
build_guard(built, cur_tmp) == ~built /\ Len(cur_tmp) > 0

\* IRGraph.build whose PHF search resumes after the multiplier of the index
\* the graph already holds, instead of starting from a = 1
build_result_resume(built, cur_nodes, cur_tmp) ==
    IF build_guard(built, cur_tmp)
    THEN LET g == IF cur_nodes.phf = None \/ HasEqualItems(cur_tmp)
                  THEN gen_phf(cur_tmp)
                  ELSE SearchA(cur_tmp, Len(cur_tmp), cur_nodes.phf[1].a + 1,
                               get_phf_prime(Len(cur_tmp)))
         IN  IF g.status # "ok"
             THEN [is_built |-> built, nodes |-> cur_nodes, tmp_nodes |-> cur_tmp,
                   status |-> "ValueError", err |-> "phf"]
             ELSE LET new_set == NodeSet(g.res, g.phf)
                  IN  IF check_refs(new_set)
                      THEN [is_built |-> TRUE, nodes |-> new_set,
                            tmp_nodes |-> <<>>, status |-> "ok", err |-> ""]
                      ELSE [is_built |-> built, nodes |-> new_set,
                            tmp_nodes |-> <<>>,
                            status |-> "ValueError", err |-> "refs"]
    ELSE [is_built |-> built, nodes |-> cur_nodes, tmp_nodes |-> cur_tmp,
          status |-> "ValueError", err |-> "state"]

\* IRGraph.build as a function of the graph's fields: the fields after the
\* call and how the call ended
build_result(built, cur_nodes, cur_tmp) ==
    IF build_guard(built, cur_tmp)
    THEN LET g == gen_phf(cur_tmp)
         IN  IF g.status # "ok"
             THEN [is_built |-> built, nodes |-> cur_nodes, tmp_nodes |-> cur_tmp,
                   status |-> "ValueError", err |-> "phf"]
             ELSE LET new_set == NodeSet(g.res, g.phf)
                  IN  IF check_refs(new_set)
                      THEN [is_built |-> TRUE, nodes |-> new_set,
                            tmp_nodes |-> <<>>, status |-> "ok", err |-> ""]
                      ELSE [is_built |-> built, nodes |-> new_set,
                            tmp_nodes |-> <<>>,
                            status |-> "ValueError", err |-> "refs"]
    ELSE [is_built |-> built, nodes |-> cur_nodes, tmp_nodes |-> cur_tmp,
          status |-> "ValueError", err |-> "state"]

\* IRGraph.get_fns as a function of the graph's fields: [status, val]
get_fns_result(cur_nodes, cur_tmp, module_path, item) ==
    LET scanned == IF cur_tmp # <<>> THEN cur_tmp ELSE cur_nodes.data
        hits == {i \in 1..Len(scanned) :
                    /\ module_path = scanned[i].path
                    /\ ModuleContains(IR(scanned[i].ir).module, item)
                    /\ FnTableGetName(IR(scanned[i].ir).module.symbol_table.fn,
                                      item) # None}
    IN  IF hits # {}
        THEN LET first == CHOOSE i \in hits : \A j \in hits : i <= j
                 fns == FnTableGetName(IR(scanned[first].ir).module.symbol_table.fn,
                                       item)[1]
             IN  [status |-> "ok", val |-> Some(DictKeys(fns))]
        ELSE [status |-> "ValueError", val |-> None]

\* get_type of core/code/tools.py: [status, val]
get_type_result(cur_nodes, node_key, importing) ==
    LET node == NodeSetGetItem(cur_nodes, node_key)
    IN  IF node.status # "ok"
        THEN [status |-> "ValueError", val |-> None]
        ELSE [status |-> "ok",
              val |-> TypeTableGet(IR(node.val[1].ir).module.symbol_table.type,
                                   importing)]

\* get_fn of core/code/tools.py: [status, val]
get_fn_result(cur_nodes, node_key, importing) ==
    LET node == NodeSetGetItem(cur_nodes, node_key)
    IN  IF node.status # "ok"
        THEN [status |-> "ValueError", val |-> None]
        ELSE FnTableGetHeader(IR(node.val[1].ir).module.symbol_table.fn, importing)

\* IRGraph.__contains__ for a Path: scans the building set only
IRGraphContainsPath(cur_tmp, item) ==
    \E i \in 1..Len(cur_tmp) : IRNodeContainsPath(cur_tmp[i], item)

Names == {"add", "T"}
TypeNames == {"T", "U"}
Headers == {HAddII, HSubI}
\* the paths asked in the (path, symbol) membership tests
PairPaths == {"b", "d"}

Init ==
    /\ seed \in HashSeeds
    /\ is_built = FALSE
    /\ nodes = NodeSet(<<>>, None)
    /\ tmp_nodes = <<>>
    /\ main_node = None
    /\ ret = Result("init", "ok", "", None)
    /\ adds = 0
    /\ symbol_table = SymbolTable
    /\ table_adds = 0
    /\ table_call = <<>>
    /\ call_stack = <<>>
    /\ discovery = [root |-> "", status |-> "idle", first |-> 0]
    /\ search = [items |-> <<>>, a |-> 0, r |-> 0, tried |-> 0,
                 status |-> "idle", res |-> <<>>]

\* add_node that also records the unit as the program entry
add_node_sets_main(ir) ==
    /\ adds < MaxAdds
    /\ tmp_nodes' = Append(tmp_nodes, IRNode(ir))
    /\ main_node' = Some(IRNode(ir).irhash)
    /\ ret' = Result("add_node", "ok", "", Some(IRNode(ir).irhash))
    /\ adds' = adds + 1
    /\ UNCHANGED <<seed, is_built, nodes>>
    /\ UNCHANGED <<table_vars, import_vars, search>>

\* add_node that leaves out a unit whose identity the building set holds
add_node_dedup(ir) ==
    /\ adds < MaxAdds
    /\ tmp_nodes' = IF \E i \in 1..Len(tmp_nodes) :
                          HashEq(tmp_nodes[i], IRNode(ir))
                    THEN tmp_nodes
                    ELSE Append(tmp_nodes, IRNode(ir))
    /\ ret' = Result("add_node", "ok", "", Some(IRNode(ir).irhash))
    /\ adds' = adds + 1
    /\ UNCHANGED <<seed, is_built, nodes, main_node>>
    /\ UNCHANGED <<table_vars, import_vars, search>>

\* IRGraph.add_node
add_node(ir) ==
    /\ adds < MaxAdds
    /\ tmp_nodes' = Append(tmp_nodes, IRNode(ir))
    /\ ret' = Result("add_node", "ok", "", Some(IRNode(ir).irhash))
    /\ adds' = adds + 1
    /\ UNCHANGED <<seed, is_built, nodes, main_node>>
    /\ UNCHANGED <<table_vars, import_vars, search>>

\* IRGraph.add_main_node
add_main_node(ir) ==
    /\ adds < MaxAdds
    /\ tmp_nodes' = Append(tmp_nodes, IRNode(ir))
    /\ main_node' = Some(IRNode(ir).irhash)
    /\ ret' = Result("add_main_node", "ok", "", Some(IRNode(ir).irhash))
    /\ adds' = adds + 1
    /\ UNCHANGED <<seed, is_built, nodes>>
    /\ UNCHANGED <<table_vars, import_vars, search>>

\* IRGraph.build
build ==
    LET b == build_result(is_built, nodes, tmp_nodes)
    IN  /\ is_built' = b.is_built
        /\ nodes' = b.nodes
        /\ tmp_nodes' = b.tmp_nodes
        /\ ret' = Result("build", b.status, b.err, None)
        /\ UNCHANGED <<seed, main_node, adds>>
        /\ UNCHANGED <<table_vars, import_vars, search>>

\* IRGraph.get_fns
get_fns(module_path, item) ==
    LET g == get_fns_result(nodes, tmp_nodes, module_path, item)
    IN  /\ ret' = Result("get_fns", g.status,
                         IF g.status = "ok" THEN "" ELSE "notfound", g.val)
        /\ UNCHANGED <<seed, is_built, nodes, tmp_nodes, main_node, adds>>
        /\ UNCHANGED <<table_vars, import_vars, search>>

\* get_type(node_key, importing, ir_graph)
get_type(node_key, importing) ==
    LET g == get_type_result(nodes, node_key, importing)
    IN  /\ ret' = Result("get_type", g.status,
                         IF g.status = "ok" THEN "" ELSE "lookup", g.val)
        /\ UNCHANGED <<seed, is_built, nodes, tmp_nodes, main_node, adds>>
        /\ UNCHANGED <<table_vars, import_vars, search>>

\* get_fn(node_key, importing, ir_graph)
get_fn(node_key, importing) ==
    LET g == get_fn_result(nodes, node_key, importing)
    IN  /\ ret' = Result("get_fn", g.status,
                         IF g.status = "ok" THEN "" ELSE "lookup", g.val)
        /\ UNCHANGED <<seed, is_built, nodes, tmp_nodes, main_node, adds>>
        /\ UNCHANGED <<table_vars, import_vars, search>>

\* path in graph
graph_contains(item) ==
    /\ ret' = Result("graph_contains", "ok", "",
                     Some(IRGraphContainsPath(tmp_nodes, item)))
    /\ UNCHANGED <<seed, is_built, nodes, tmp_nodes, main_node, adds>>
    /\ UNCHANGED <<table_vars, import_vars, search>>

\* (path, name) in graph.nodes
nodes_contains_name(path, symbol) ==
    LET c == NodeSetContainsPairName(nodes, path, symbol)
    IN  /\ ret' = Result("nodes_contains", c.status, "", Some(c.val))
        /\ UNCHANGED <<seed, is_built, nodes, tmp_nodes, main_node, adds>>
        /\ UNCHANGED <<table_vars, import_vars, search>>

\* (path, FnHeader) in graph.nodes
nodes_contains_header(path, symbol) ==
    LET c == NodeSetContainsPairHeader(nodes, path, symbol)
    IN  /\ ret' = Result("nodes_contains", c.status,
                         IF c.status = "ok" THEN "" ELSE "lookup", Some(c.val))
        /\ UNCHANGED <<seed, is_built, nodes, tmp_nodes, main_node, adds>>
        /\ UNCHANGED <<table_vars, import_vars, search>>

Next ==
    \/ \E id \in UnitIds : add_node(Unit(id))
    \/ \E id \in UnitIds : add_main_node(Unit(id))
    \/ build
    \/ \E module_path \in Paths, item \in Names : get_fns(module_path, item)
    \/ \E key \in Paths, importing \in TypeNames : get_type(IRHash(key), importing)
    \/ \E key \in Paths, importing \in Headers : get_fn(IRHash(key), importing)
    \/ \E item \in Paths : graph_contains(item)
    \/ \E path \in PairPaths, symbol \in Names :
           nodes_contains_name(path, symbol)
    \/ \E path \in PairPaths, symbol \in Headers :
           nodes_contains_header(path, symbol)

Spec == Init /\ [][Next]_vars

----------------------------------------------------------------------------
(* Registration of the built-in modules, core/compiler/builtin_modules.py   *)

\* Bound of the model: number of nodes added in one run with built-ins.
MaxBuiltinAdds == 4

\* the nodes add_builtin_modules adds for a registry, in its order
builtin_nodes(builtin_dict) ==
    [i \in 1..Len(builtin_dict) |->
        IRNode(builtin_ir(seed, builtin_dict[i][1], builtin_dict[i][2]))]

add_builtin_modules(builtin_dict) ==
    /\ adds + Len(builtin_dict) <= MaxBuiltinAdds
    /\ tmp_nodes' = tmp_nodes \o builtin_nodes(builtin_dict)
    /\ adds' = adds + Len(builtin_dict)
    /\ ret' = Result("add_builtin_modules", "ok", "", None)
    /\ UNCHANGED <<seed, is_built, nodes, main_node>>
    /\ UNCHANGED <<table_vars, import_vars, search>>

\* gen_builtin_modules that calls build() whatever to_build is
gen_builtin_modules_always_build(to_build) ==
    LET loaded == (tmp_nodes \o builtin_nodes(builtin_fns_path))
                      \o builtin_nodes(builtin_types)
        b == build_result(is_built, nodes, loaded)
    IN  /\ adds + Len(loaded) - Len(tmp_nodes) <= MaxBuiltinAdds
        /\ adds' = adds + Len(loaded) - Len(tmp_nodes)
        /\ is_built' = b.is_built
        /\ nodes' = b.nodes
        /\ tmp_nodes' = b.tmp_nodes
        /\ ret' = Result("gen_builtin_modules", b.status, b.err, None)
        /\ UNCHANGED <<seed, main_node>>
        /\ UNCHANGED <<table_vars, import_vars, search>>

\* gen_builtin_modules: the functions, then the types, then build() if
\* to_build; an error of build() is the error of the call
gen_builtin_modules(to_build) ==
    LET loaded == (tmp_nodes \o builtin_nodes(builtin_fns_path))
                      \o builtin_nodes(builtin_types)
        b == IF to_build
             THEN build_result(is_built, nodes, loaded)
             ELSE [is_built |-> is_built, nodes |-> nodes, tmp_nodes |-> loaded,
                   status |-> "ok", err |-> ""]
    IN  /\ adds + Len(loaded) - Len(tmp_nodes) <= MaxBuiltinAdds
        /\ adds' = adds + Len(loaded) - Len(tmp_nodes)
        /\ is_built' = b.is_built
        /\ nodes' = b.nodes
        /\ tmp_nodes' = b.tmp_nodes
        /\ ret' = Result("gen_builtin_modules", b.status, b.err, None)
        /\ UNCHANGED <<seed, main_node>>
        /\ UNCHANGED <<table_vars, import_vars, search>>

\* the user program's units arrive through add_node, within the same bound
add_user_node(ir) ==
    /\ adds < MaxBuiltinAdds
    /\ tmp_nodes' = Append(tmp_nodes, IRNode(ir))
    /\ ret' = Result("add_node", "ok", "", Some(IRNode(ir).irhash))
    /\ adds' = adds + 1
    /\ UNCHANGED <<seed, is_built, nodes, main_node>>
    /\ UNCHANGED <<table_vars, import_vars, search>>

BuiltinNext ==
    \/ \E builtin_dict \in {builtin_fns_path, builtin_types} :
           add_builtin_modules(builtin_dict)
    \/ \E to_build \in BOOLEAN : gen_builtin_modules(to_build)
    \/ \E id \in {"A", "C"} : add_user_node(Unit(id))
    \/ build
    \/ \E key \in BuiltinPaths, importing \in TypeNames :
           get_type(IRHash(key), importing)
    \/ \E key \in BuiltinPaths, importing \in Headers :
           get_fn(IRHash(key), importing)

BuiltinSpec == Init /\ [][BuiltinNext]_vars

----------------------------------------------------------------------------
(* The symbol table on its own: TypeTable and ConstTable                    *)

\* Bound of the model: number of add calls on the tables of one run.
MaxTableAdds == 3

\* DataDef objects: the name, the DataKind the object reports (DataDef.kind),
\* whether the object has an attribute is_constant at all (an object of
\* class DataDef has none, one of a subclass may) and its value, and an id
\* telling two objects apart
DataDef(name, data_kind, has_is_constant, is_constant, id) ==
    [kind |-> "DataDef", name |-> name, data_kind |-> data_kind,
     has_is_constant |-> has_is_constant, is_constant |-> is_constant,
     id |-> id]

DataDefs ==
    {DataDef("K", "CONSTANT", FALSE, FALSE, 1),
     DataDef("K", "CONSTANT", TRUE, TRUE, 2),
     DataDef("L", "CONSTANT", TRUE, TRUE, 3),
     DataDef("K", "MUTABLE", TRUE, FALSE, 4),
     DataDef("L", "MUTABLE", FALSE, FALSE, 5)}

ConstNames == {"K", "L"}

TypeTable_add(name, data) ==
    LET r == TypeTableAddChecked(symbol_table.type, name, data)
    IN  /\ table_adds < MaxTableAdds
        /\ symbol_table' = [symbol_table EXCEPT !.type = r.table]
        /\ table_adds' = table_adds + 1
        /\ table_call' = <<name, data>>
        /\ ret' = Result("TypeTable.add", r.status,
                         IF r.status = "ok" THEN "" ELSE "entry", None)
        /\ UNCHANGED <<graph_vars, import_vars, search>>

TypeTable_get(name) ==
    /\ table_call' = <<name>>
    /\ ret' = Result("TypeTable.get", "ok", "",
                     TypeTableGet(symbol_table.type, name))
    /\ UNCHANGED <<graph_vars, import_vars, search, symbol_table, table_adds>>

ConstTable_add(item) ==
    LET r == ConstTableAdd(symbol_table.const, item)
    IN  /\ table_adds < MaxTableAdds
        /\ symbol_table' = [symbol_table EXCEPT !.const = r.table]
        /\ table_adds' = table_adds + 1
        /\ table_call' = <<item>>
        /\ ret' = Result("ConstTable.add", r.status,
                         IF r.status = "ok" THEN "" ELSE "entry", None)
        /\ UNCHANGED <<graph_vars, import_vars, search>>

ConstTable_get(item) ==
    /\ table_call' = <<item>>
    /\ ret' = Result("ConstTable.get", "ok", "",
                     ConstTableGet(symbol_table.const, item))
    /\ UNCHANGED <<graph_vars, import_vars, search, symbol_table, table_adds>>

TypeConstNext ==
    \/ \E name \in TypeNames, data \in {TD1, TD2, FD1} : TypeTable_add(name, data)
    \/ \E name \in TypeNames : TypeTable_get(name)
    \/ \E item \in DataDefs : ConstTable_add(item)
    \/ \E item \in ConstNames : ConstTable_get(item)

TypeConstSpec == Init /\ [][TypeConstNext]_vars

----------------------------------------------------------------------------
(* The symbol table on its own: FnTable, MetaModTable and ModifierTable     *)

DAddII == FnHeaderDef("add", "int", <<"x", "y">>, <<"int", "int">>)

\* the header an entry of either class stands for
HeaderOf(entry_kind, fn_entry) ==
    IF entry_kind = "FnHeaderDef"
    THEN FnHeader(fn_entry.name, fn_entry.args_types)
    ELSE fn_entry

FnTable_add(entry_kind, fn_entry, data) ==
    LET r == FnTableAddChecked(symbol_table.fn, entry_kind, fn_entry, data)
    IN  /\ table_adds < MaxTableAdds
        /\ symbol_table' = [symbol_table EXCEPT !.fn = r.table]
        /\ table_adds' = table_adds + 1
        /\ table_call' = <<entry_kind, fn_entry, data>>
        /\ ret' = Result("FnTable.add", r.status,
                         IF r.status = "ok" THEN "" ELSE "entry", None)
        /\ UNCHANGED <<graph_vars, import_vars, search>>

FnTable_get_name(fn_entry) ==
    /\ table_call' = <<"Symbol", fn_entry>>
    /\ ret' = Result("FnTable.get", "ok", "",
                     FnTableGetName(symbol_table.fn, fn_entry))
    /\ UNCHANGED <<graph_vars, import_vars, search, symbol_table, table_adds>>

FnTable_get_header(fn_entry) ==
    LET g == FnTableGetHeader(symbol_table.fn, fn_entry)
    IN  /\ table_call' = <<"FnHeader", fn_entry>>
        /\ ret' = Result("FnTable.get", g.status,
                         IF g.status = "ok" THEN "" ELSE "lookup", g.val)
        /\ UNCHANGED <<graph_vars, import_vars, search, symbol_table, table_adds>>

MetaModTable_add(entry_kind, fn_entry, data) ==
    LET r == MetaModTableAddChecked(symbol_table.metamod, entry_kind, fn_entry,
                                    data)
    IN  /\ table_adds < MaxTableAdds
        /\ symbol_table' = [symbol_table EXCEPT !.metamod = r.table]
        /\ table_adds' = table_adds + 1
        /\ table_call' = <<entry_kind, fn_entry, data>>
        /\ ret' = Result("MetaModTable.add", r.status,
                         IF r.status = "ok" THEN "" ELSE "entry", None)
        /\ UNCHANGED <<graph_vars, import_vars, search>>

MetaModTable_get_header(fn_entry) ==
    LET g == FnTableGetHeader(symbol_table.metamod, fn_entry)
    IN  /\ table_call' = <<"FnHeader", fn_entry>>
        /\ ret' = Result("MetaModTable.get", g.status,
                         IF g.status = "ok" THEN "" ELSE "lookup", g.val)
        /\ UNCHANGED <<graph_vars, import_vars, search, symbol_table, table_adds>>

ModifierTable_add(entry_kind, fn_entry, data) ==
    LET r == ModifierTableAddChecked(symbol_table.modifier, entry_kind,
                                     fn_entry, data)
    IN  /\ table_adds < MaxTableAdds
        /\ symbol_table' = [symbol_table EXCEPT !.modifier = r.table]
        /\ table_adds' = table_adds + 1
        /\ table_call' = <<entry_kind, fn_entry, data>>
        /\ ret' = Result("ModifierTable.add", r.status,
                         IF r.status = "ok" THEN "" ELSE "entry", None)
        /\ UNCHANGED <<graph_vars, import_vars, search>>

ModifierTable_get_name(item) ==
    /\ table_call' = <<"Symbol", item>>
    /\ ret' = Result("ModifierTable.get", "ok", "",
                     FnTableGetName(symbol_table.modifier, item))
    /\ UNCHANGED <<graph_vars, import_vars, search, symbol_table, table_adds>>

FnTablesNext ==
    \/ \E fn_entry \in {HAddII, HAddFF, HSubI}, data \in {FD1, BFD2, TD1} :
           FnTable_add("FnHeader", fn_entry, data)
    \/ \E data \in {FD1, TD1} : FnTable_add("FnHeaderDef", DAddII, data)
    \/ \E data \in {FD1, TD1} : FnTable_add("Symbol", "add", data)
    \/ \E fn_entry \in {"add", "sub"} : FnTable_get_name(fn_entry)
    \/ \E fn_entry \in {HAddII, HAddFF, HSubI} : FnTable_get_header(fn_entry)
    \/ \E fn_entry \in {HAddII, HSubI}, data \in {FD1, BFD2} :
           MetaModTable_add("FnHeader", fn_entry, data)
    \/ MetaModTable_add("Symbol", "add", FD1)
    \/ \E fn_entry \in {HAddII, HSubI} : MetaModTable_get_header(fn_entry)
    \/ \E data \in {MD1, FD1} : ModifierTable_add("FnHeader", HAddII, data)
    \/ ModifierTable_add("FnHeaderDef", DAddII, MD1)
    \/ ModifierTable_add("Symbol", "add", MD1)
    \/ ModifierTable_get_name("add")

FnTablesSpec == Init /\ [][FnTablesNext]_vars

----------------------------------------------------------------------------
(* Discovery of the units of a project: parse of ir_visitor.py and the      *)
(* importers of core/imports/importer.py. The visitor works bottom-up: the  *)
(* use() statements of a file are resolved, each by its importer, before    *)
(* visit_type_program / visit_fn_program builds the unit of the file and    *)
(* adds it to the graph. An importer that does not find the module path in  *)
(* the graph calls parse on that file, from within the parse of the         *)
(* importing file.                                                          *)

\* parse calls started on a graph holding fewer nodes than this
MaxDiscoveryAdds == 3

\* nested parse calls that fit below the interpreter's recursion limit
MaxParseDepth == 4

Frame(path, pc, loaded) == [path |-> path, pc |-> pc, loaded |-> loaded]

\* the frames below the running one
Callers == SubSeq(call_stack, 1, Len(call_stack) - 1)

\* the running parse call
Top == call_stack[Len(call_stack)]

\* an exception leaves every nested parse call
Raise(status) ==
    /\ call_stack' = <<>>
    /\ discovery' = [discovery EXCEPT !.status = status]
    /\ ret' = Result("parse", status, "", None)

\* parse(..., module_path, ir_graph) called by the compiler on a file
parse(module_path) ==
    /\ call_stack = <<>>
    /\ adds < MaxDiscoveryAdds
    /\ call_stack' = <<Frame(module_path, 1, FALSE)>>
    /\ discovery' = [root |-> module_path, status |-> "running",
                     first |-> Len(tmp_nodes)]
    /\ ret' = Result("parse", "running", "", None)
    /\ UNCHANGED <<graph_vars, table_vars, search>>

\* the importer finds the module in the graph, or _add_module has returned:
\* TypeImporter returns the pair, FnImporter asks the graph for the functions
import_resolved ==
    /\ call_stack # <<>>
    /\ Top.pc <= Len(FileImports(Top.path))
    /\ LET imp == FileImports(Top.path)[Top.pc]
           fns == get_fns_result(nodes, tmp_nodes, imp.path, imp.name)
       IN  /\ Top.loaded \/ IRGraphContainsPath(tmp_nodes, imp.path)
           /\ IF imp.kind = "fn" /\ fns.status # "ok"
              THEN Raise("ValueError")
              ELSE /\ call_stack' = Append(Callers,
                                           Frame(Top.path, Top.pc + 1, FALSE))
                   /\ UNCHANGED <<discovery, ret>>
    /\ UNCHANGED <<graph_vars, table_vars, search>>

\* the importer does not find the module in the graph: _add_module calls
\* parse on its file, which the interpreter refuses beyond its limit
import_add_module ==
    /\ call_stack # <<>>
    /\ Top.pc <= Len(FileImports(Top.path))
    /\ LET imp == FileImports(Top.path)[Top.pc]
       IN  /\ ~Top.loaded
           /\ ~IRGraphContainsPath(tmp_nodes, imp.path)
           /\ IF Len(call_stack) >= MaxParseDepth
              THEN Raise("RecursionError")
              ELSE /\ call_stack' = Append(call_stack,
                                           Frame(imp.path, 1, FALSE))
                   /\ UNCHANGED <<discovery, ret>>
    /\ UNCHANGED <<graph_vars, table_vars, search>>

\* visit_type_program / visit_fn_program that puts the unit in front of the
\* units registered so far
visit_program_prepend ==
    /\ call_stack # <<>>
    /\ Top.pc > Len(FileImports(Top.path))
    /\ LET visited_ir == FileUnitTable[seed][Top.path]
       IN  /\ tmp_nodes' = <<IRNode(visited_ir)>> \o tmp_nodes
           /\ main_node' = IF FileHasMain(Top.path)
                           THEN Some(IRNode(visited_ir).irhash)
                           ELSE main_node
           /\ adds' = adds + 1
    /\ IF Len(call_stack) = 1
       THEN /\ call_stack' = <<>>
            /\ discovery' = [discovery EXCEPT !.status = "done"]
            /\ ret' = Result("parse", "ok", "", None)
       ELSE /\ call_stack' =
                   Append(SubSeq(call_stack, 1, Len(call_stack) - 2),
                          [call_stack[Len(call_stack) - 1]
                               EXCEPT !.loaded = TRUE])
            /\ UNCHANGED <<discovery, ret>>
    /\ UNCHANGED <<seed, is_built, nodes>>
    /\ UNCHANGED <<table_vars, search>>

\* visit_type_program / visit_fn_program: every child is visited; the unit
\* is built and added, as the main node if the file has a main body, and
\* parse returns to the importer that called it, or to the compiler
visit_program ==
    /\ call_stack # <<>>
    /\ Top.pc > Len(FileImports(Top.path))
    /\ LET visited_ir == FileUnitTable[seed][Top.path]
       IN  /\ tmp_nodes' = Append(tmp_nodes, IRNode(visited_ir))
           /\ main_node' = IF FileHasMain(Top.path)
                           THEN Some(IRNode(visited_ir).irhash)
                           ELSE main_node
           /\ adds' = adds + 1
    /\ IF Len(call_stack) = 1
       THEN /\ call_stack' = <<>>
            /\ discovery' = [discovery EXCEPT !.status = "done"]
            /\ ret' = Result("parse", "ok", "", None)
       ELSE /\ call_stack' =
                   Append(SubSeq(call_stack, 1, Len(call_stack) - 2),
                          [call_stack[Len(call_stack) - 1]
                               EXCEPT !.loaded = TRUE])
            /\ UNCHANGED <<discovery, ret>>
    /\ UNCHANGED <<seed, is_built, nodes>>
    /\ UNCHANGED <<table_vars, search>>

\* the compiler calls build() once parse has returned
build_after_parse ==
    /\ call_stack = <<>>
    /\ build

DiscoveryNext ==
    \/ \E module_path \in FilePaths : parse(module_path)
    \/ import_resolved
    \/ import_add_module
    \/ visit_program
    \/ build_after_parse

DiscoverySpec == Init /\ [][DiscoveryNext]_vars

----------------------------------------------------------------------------
(* gen_phf of core/code/utils.py followed candidate by candidate: one step  *)
(* is one turn of the inner loop, a call of _gen_res_a_r_phf. The loop over *)
(* a runs below SearchALimit here, the loop over r below PHF_R_LIMIT.       *)

\* the end of the range of a walked by the stepwise search
SearchALimit == 3

\* the hashes of the items handed to gen_phf
SearchUids == {0, 3, -4, 38}

Item(uid) == [uid |-> uid]

\* the tuples handed to gen_phf: empty, with equal items, with distinct items
SearchTuples ==
    {<<>>} \cup {<<Item(x)>> : x \in SearchUids}
           \cup {<<Item(x), Item(y)>> : x, y \in SearchUids}
           \cup {<<Item(x), Item(y), Item(3)>> : x, y \in SearchUids}

\* gen_phf is called: the loops start at a = 1, r = 0
gen_phf_call(group_tuple) ==
    /\ search.status # "searching"
    /\ search' = [items |-> group_tuple, a |-> 1, r |-> 0, tried |-> 0,
                  status |-> IF 1 < SearchALimit THEN "searching"
                             ELSE "ValueError",
                  res |-> <<>>]
    /\ ret' = Result("gen_phf", "running", "", None)
    /\ UNCHANGED <<graph_vars, table_vars, import_vars>>

\* one turn of the inner loop that returns to the top of the same loops
\* whatever the candidate gave
gen_phf_candidate_no_advance ==
    /\ search.status = "searching"
    /\ search' = [search EXCEPT !.tried = (@ + 1) % 200]
    /\ UNCHANGED <<graph_vars, table_vars, import_vars, ret>>

\* one turn of the inner loop: the candidate (a, r) is tried; gen_phf
\* returns if it placed every item, goes on with the next r, or the next a,
\* and raises when the ranges are exhausted
gen_phf_candidate ==
    /\ search.status = "searching"
    /\ LET tuple_len == Len(search.items)
           res_list == gen_res_a_r_phf(search.items, tuple_len, search.a,
                                       search.r, get_phf_prime(tuple_len))
       IN  IF res_list # <<>>
           THEN /\ search' = [search EXCEPT !.tried = @ + 1,
                                            !.status = "found",
                                            !.res = res_list]
                /\ ret' = Result("gen_phf", "ok", "", None)
           ELSE IF search.r + 1 < PHF_R_LIMIT
           THEN /\ search' = [search EXCEPT !.tried = @ + 1, !.r = @ + 1]
                /\ UNCHANGED ret
           ELSE IF search.a + 1 < SearchALimit
           THEN /\ search' = [search EXCEPT !.tried = @ + 1, !.r = 0,
                                            !.a = @ + 1]
                /\ UNCHANGED ret
           ELSE /\ search' = [search EXCEPT !.tried = @ + 1,
                                            !.status = "ValueError"]
                /\ ret' = Result("gen_phf", "ValueError", "phf", None)
    /\ UNCHANGED <<graph_vars, table_vars, import_vars>>

SearchNext ==
    \/ \E group_tuple \in SearchTuples : gen_phf_call(group_tuple)
    \/ gen_phf_candidate

\* a running call goes on: the interpreter executes the next turn
SearchSpec == Init /\ [][SearchNext]_vars /\ WF_vars(gen_phf_candidate)

----------------------------------------------------------------------------
(* Properties                                                               *)

Ok(x) == [status |-> "ok", val |-> Some(x)]

\* the uids of a tuple of nodes are pairwise distinct
DistinctUids(seq) ==
    \A i, j \in 1..Len(seq) : i # j => seq[i].uid # seq[j].uid

\* some reference of some node of the tuple names an identity (uid) that no
\* node of the tuple has
DanglingRef(seq) ==
    \E i \in 1..Len(seq) :
        \E h \in {IR(seq[i].ir).ref_table.types[k][2] :
                      k \in 1..Len(IR(seq[i].ir).ref_table.types)}
              \cup {IR(seq[i].ir).ref_table.fns[k][2] :
                      k \in 1..Len(IR(seq[i].ir).ref_table.fns)} :
            \A j \in 1..Len(seq) : seq[j].irhash.uid # h.uid

\* the step is a call of build(): no other operation reports as "build"
BuildStep == ret'.op = "build"

\* C1: a successful build() freezes every unit of the building set, and the
\* indexed lookup by a node's identity returns that very node (the slot of
\* get_hash is the slot gen_phf chose).
C1_IndexedLookupReturnsOwnNode ==
    [][(~is_built /\ is_built') =>
         /\ \A i \in 1..Len(nodes'.data) :
                NodeSetGetItem(nodes', nodes'.data[i].irhash)
                    = Ok(nodes'.data[i])
         /\ \A i \in 1..Len(tmp_nodes) :
                /\ \E j \in 1..Len(nodes'.data) :
                       nodes'.data[j] = tmp_nodes[i]
                /\ NodeSetGetItem(nodes', IRHash(tmp_nodes[i].path))
                       = Ok(tmp_nodes[i])]_vars

\* C1 witness: a graph built from three units, just after the build
C1_Witness ==
    /\ is_built /\ ret.op = "build" /\ ret.status = "ok"
    /\ Len(nodes.data) = 3

C3_Original ==
    [][(~is_built /\ tmp_nodes # <<>> /\ BuildStep) =>
         IF DanglingRef(tmp_nodes)
         THEN ret'.status = "ValueError" /\ ret'.err = "refs"
         ELSE ret'.status = "ok" /\ is_built']_vars

\* C3 amended: build() on a non-built graph with a non-empty building set
\* raises the PHF-search error and stays not built when gen_phf finds no
\* parameters, which is always so when two nodes share a uid; when gen_phf
\* succeeds it raises the reference error if some reference is dangling and
\* otherwise succeeds and sets is_built.
C3_BuildChecksReferences ==
    [][(~is_built /\ tmp_nodes # <<>> /\ BuildStep) =>
         /\ ~DistinctUids(tmp_nodes) => ret'.err = "phf"
         /\ IF ret'.err = "phf"
            THEN ret'.status = "ValueError" /\ ~is_built'
            ELSE IF DanglingRef(tmp_nodes)
            THEN ret'.status = "ValueError" /\ ret'.err = "refs" /\ ~is_built'
            ELSE ret'.status = "ok" /\ is_built']_vars

\* C3 witness: a build() that raised the reference error because of a
\* function reference
C3_Witness ==
    /\ ret.op = "build" /\ ret.status = "ValueError" /\ ret.err = "refs"
    /\ ~is_built
    /\ \E i \in 1..Len(nodes.data) : IR(nodes.data[i].ir).ref_table.fns # <<>>

\* C4: build() on a built graph or with an empty building set raises the
\* state error and leaves is_built, the frozen index, the building set and
\* the main identity as they were.
C4_BuildStateError ==
    [][((is_built \/ tmp_nodes = <<>>) /\ BuildStep) =>
         /\ ret'.status = "ValueError" /\ ret'.err = "state"
         /\ UNCHANGED <<is_built, nodes, tmp_nodes, main_node>>]_vars

\* C4 witness: a second build() on a built graph that has a unit waiting
C4_Witness ==
    /\ ret.op = "build" /\ ret.err = "state"
    /\ is_built /\ tmp_nodes # <<>>

\* C5: is_built never goes back to false, and once it is true the frozen
\* index (nodes, slot order, PHF parameters) never changes.
C5_OneWayLifecycle ==
    [][is_built => (is_built' /\ nodes' = nodes)]_vars

\* C5 witness: a built graph on which add_main_node, then get_fns were called
C5_Witness ==
    /\ is_built /\ Len(tmp_nodes) >= 1 /\ ret.op = "get_fns"
    /\ main_node # None /\ main_node[1] = tmp_nodes[Len(tmp_nodes)].irhash

\* C6 as stated: a build() that raises the reference error leaves no frozen
\* index: graph.nodes is what it was before the call, and nodes[identity],
\* get_type and get_fn answer as they did before the call.
C6_Original ==
    [][(BuildStep /\ ret'.err = "refs") =>
         /\ nodes' = nodes
         /\ \A key \in Paths :
                /\ NodeSetGetItem(nodes', IRHash(key))
                       = NodeSetGetItem(nodes, IRHash(key))
                /\ \A importing \in TypeNames :
                       get_type_result(nodes', IRHash(key), importing)
                           = get_type_result(nodes, IRHash(key), importing)
                /\ \A importing \in Headers :
                       get_fn_result(nodes', IRHash(key), importing)
                           = get_fn_result(nodes, IRHash(key), importing)]_vars

\* C7 as stated: add_node and add_main_node on a built graph are rejected
\* with an error and change neither the building set, nor the frozen index,
\* nor the main identity.
C7_Original ==
    [][(is_built /\ ret'.op \in {"add_node", "add_main_node"}) =>
         /\ ret'.status # "ok"
         /\ UNCHANGED <<tmp_nodes, nodes, main_node>>]_vars

\* C8: add_main_node sets main_node to the identity it returns, overwriting
\* any earlier entry without an error, and no other operation changes
\* main_node; so main_node is always what the most recent add_main_node call
\* returned.
C8_MainNodeIsLastMain ==
    [][/\ ret'.op = "add_main_node" =>
              ret'.status = "ok" /\ main_node' = ret'.val
       /\ ret'.op \in {"add_node", "get_fns", "build", "get_type", "get_fn",
                      "graph_contains", "nodes_contains"} =>
              main_node' = main_node]_vars

\* C8 witness: after add_main_node, a build() and an add_node of another
\* unit, main_node is not the unit added last
C8_Witness ==
    /\ main_node # None /\ is_built
    /\ ret.op = "add_node" /\ ret.val # main_node
    /\ \E i \in 1..Len(nodes.data) : nodes.data[i].irhash = main_node[1]

\* the overload signatures of `name` among the FnTable.add calls, in the
\* order of their first insertion
RECURSIVE InsertedOverloads(_, _)
InsertedOverloads(addsSeq, name) ==
    IF addsSeq = <<>> THEN <<>>
    ELSE LET n == Len(addsSeq)
             before == InsertedOverloads(SubSeq(addsSeq, 1, n - 1), name)
             entry == addsSeq[n][1]
         IN  IF entry.name = name
                /\ ~\E k \in 1..Len(before) : before[k] = entry
             THEN Append(before, entry)
             ELSE before

\* C9: across a successful build() get_fns(path, name) gives the same answer
\* from the building set and from the frozen set: the overload signatures
\* inserted under name in the unit at path, in insertion order (and the
\* not-found error when that unit has none).
C9_GetFnsSameBeforeAndAfterBuild ==
    [][(~is_built /\ is_built') =>
         \A module_path \in Paths, item \in {"add", "sub", "T"} :
             LET before == get_fns_result(nodes, tmp_nodes, module_path, item)
                 after == get_fns_result(nodes', tmp_nodes', module_path, item)
                 owners == {i \in 1..Len(tmp_nodes) :
                               tmp_nodes[i].path = module_path}
             IN  /\ after = before
                 /\ \A i \in owners :
                        LET inserted ==
                                InsertedOverloads(FnAdds(tmp_nodes[i].ir), item)
                        IN  IF inserted # <<>>
                            THEN after = Ok(inserted)
                            ELSE after.status = "ValueError"
                 /\ owners = {} => after.status = "ValueError"]_vars

\* C9 witness: get_fns on a graph built from at least two units returned two
\* overloads
C9_Witness ==
    /\ is_built /\ tmp_nodes = <<>> /\ Len(nodes.data) >= 2
    /\ ret.op = "get_fns" /\ ret.status = "ok"
    /\ Len(ret.val[1]) = 2

\* the definition that the FnTable.add calls leave for signature s
StoredDef(addsSeq, s) ==
    LET last == CHOOSE k \in 1..Len(addsSeq) :
                    /\ addsSeq[k][1] = s
                    /\ \A m \in 1..Len(addsSeq) : addsSeq[m][1] = s => m <= k
    IN  addsSeq[last][2]

\* C10: in a built graph, when B's function-reference table maps signature s
\* to the identity of a unit A of the graph whose function table defines s,
\* get_fn with that recorded identity and s returns the definition A stored.
C10_GetFnViaReference ==
    is_built =>
        \A i, j \in 1..Len(nodes.data) :
            LET refs == IR(nodes.data[i].ir).ref_table.fns
                A == nodes.data[j]
            IN  \A k \in 1..Len(refs) :
                    ( /\ refs[k][2].uid = A.irhash.uid
                      /\ \E m \in 1..Len(FnAdds(A.ir)) :
                             FnAdds(A.ir)[m][1] = refs[k][1] )
                    => get_fn_result(nodes, refs[k][2], refs[k][1])
                           = [status |-> "ok",
                              val |-> Some(StoredDef(FnAdds(A.ir), refs[k][1]))]

\* C10 witness: get_fn returned A's definition of add(int, int) in a built
\* graph that also holds B, which defines add(int, int) itself and refers to
\* the one of A
C10_Witness ==
    /\ is_built /\ ret.op = "get_fn" /\ ret.status = "ok"
    /\ ret.val = Some("a.add_ii_v2")
    /\ \E i \in 1..Len(nodes.data) :
           /\ nodes.data[i].ir = "B"
           /\ IR(nodes.data[i].ir).ref_table.fns # <<>>

\* C11 as stated: on a built graph get_type and get_fn, asked at the identity
\* of a unit of the graph for a symbol that unit does not define, return None
\* without raising: for a type name the unit lacks, for a signature whose
\* name the unit defines only with other overloads, and for a signature whose
\* name the unit does not define at all.
C11_Original ==
    is_built =>
        \A i \in 1..Len(nodes.data) :
            LET unit == IR(nodes.data[i].ir)
                key == nodes.data[i].irhash
            IN  /\ \A importing \in TypeNames :
                       ~DictHas(unit.module.symbol_table.type, importing)
                       => get_type_result(nodes, key, importing)
                              = [status |-> "ok", val |-> None]
                /\ \A importing \in {HAddII, HAddFF, HSubI} :
                       (\A m \in 1..Len(FnAdds(unit.id)) :
                            FnAdds(unit.id)[m][1] # importing)
                       => get_fn_result(nodes, key, importing)
                              = [status |-> "ok", val |-> None]

C13_Original ==
    [][~is_built' =>
         \A item \in Paths :
             IRGraphContainsPath(tmp_nodes', item)
                 <=> \/ IRGraphContainsPath(tmp_nodes, item)
                     \/ /\ ret'.op \in {"add_node", "add_main_node"}
                        /\ ret'.val[1].key = item]_vars

\* C14 as stated: (path, symbol) in graph.nodes never raises and is true
\* exactly when some node of the set has that path and its unit defines
\* symbol as a type or a function, for a bare name and for a full overload
\* signature, whether or not the unit defines the signature's function name.
C14_Original ==
    \A path \in Paths :
        LET owners == {i \in 1..Len(nodes.data) : nodes.data[i].path = path}
        IN  /\ \A symbol \in {"add", "sub", "T", "U"} :
                   NodeSetContainsPairName(nodes, path, symbol)
                       = [status |-> "ok",
                          val |-> \E i \in owners :
                                      \/ \E m \in 1..Len(TypeAdds(nodes.data[i].ir)) :
                                             TypeAdds(nodes.data[i].ir)[m][1] = symbol
                                      \/ \E m \in 1..Len(FnAdds(nodes.data[i].ir)) :
                                             FnAdds(nodes.data[i].ir)[m][1].name
                                                 = symbol]
            /\ \A symbol \in {HAddII, HAddFF, HSubI} :
                   NodeSetContainsPairHeader(nodes, path, symbol)
                       = [status |-> "ok",
                          val |-> \E i \in owners :
                                      \E m \in 1..Len(FnAdds(nodes.data[i].ir)) :
                                          FnAdds(nodes.data[i].ir)[m][1] = symbol]

\* C15: TypeTable.add is idempotent-if-absent. An add of an absent name
\* stores the data at the end of the table; an add of a name the table
\* already holds raises nothing and changes nothing: get(name) still returns
\* the data of the first add, and the length and the order of the table stay.
C15_TypeAddIdempotentIfAbsent ==
    [][(ret'.op = "TypeTable.add" /\ table_call'[2].kind = "TypeDef") =>
         LET name == table_call'[1]
             data == table_call'[2]
             before == symbol_table.type
             after == symbol_table'.type
         IN  /\ ret'.status = "ok"
             /\ IF DictHas(before, name)
                THEN /\ TypeTableGet(after, name) = TypeTableGet(before, name)
                     /\ Len(after) = Len(before)
                     /\ DictKeys(after) = DictKeys(before)
                     /\ after = before
                ELSE /\ TypeTableGet(after, name) = Some(data)
                     /\ after = Append(before, <<name, data>>)]_vars

\* C15 witness: add(T, d2) has just returned on a table that held T -> d1
\* and U, and the table still holds T -> d1 in first place
C15_Witness ==
    /\ ret.op = "TypeTable.add" /\ ret.status = "ok"
    /\ table_call = <<"T", TD2>>
    /\ symbol_table.type = <<<<"T", TD1>>, <<"U", TD2>>>>

\* C17 as stated: ConstTable.add raises exactly when the item does not
\* report itself constant: an add of a non-constant item raises and leaves
\* the table unchanged, an add of a constant item raises nothing and makes
\* get(name) return the item.
C17_Original ==
    [][ret'.op = "ConstTable.add" =>
         LET item == table_call'[1]
         IN  IF item.data_kind = "CONSTANT"
             THEN /\ ret'.status = "ok"
                  /\ ConstTableGet(symbol_table'.const, item.name) = Some(item)
             ELSE /\ ret'.status # "ok"
                  /\ symbol_table'.const = symbol_table.const]_vars

\* the overload signatures a name-grouped table holds under name, in order
OverloadsOf(table, name) ==
    IF DictHas(table, name) THEN DictKeys(DictGet(table, name)[1]) ELSE <<>>

\* what one well-formed add(h, data) does to a name-grouped table: get(h)
\* returns data; under the name of h the signatures are those held before
\* with h appended if it is new, and every other signature of that name
\* keeps its definition; every other name keeps its whole entry
GroupedAdd(before, after, h, data) ==
    /\ FnTableGetHeader(after, h) = [status |-> "ok", val |-> Some(data)]
    /\ OverloadsOf(after, h.name)
           = IF \E k \in 1..Len(OverloadsOf(before, h.name)) :
                    OverloadsOf(before, h.name)[k] = h
             THEN OverloadsOf(before, h.name)
             ELSE Append(OverloadsOf(before, h.name), h)
    /\ \A h2 \in {HAddII, HAddFF, HSubI} \ {h} :
           IF h2.name = h.name
           THEN FnTableGetHeader(after, h2)
                    = [status |-> "ok",
                       val |-> IF DictHas(before, h.name)
                               THEN FnTableGetHeader(before, h2).val
                               ELSE None]
           ELSE FnTableGetHeader(after, h2) = FnTableGetHeader(before, h2)
    /\ \A name \in {"add", "sub"} \ {h.name} :
           FnTableGetName(after, name) = FnTableGetName(before, name)

\* C16: FnTable and MetaModTable group by name and nest by signature. Every
\* add of a definition under a signature (given as FnHeader or FnHeaderDef)
\* makes get(signature) return that definition, appends the signature to
\* the map of its name if it is new there and keeps the map's order
\* otherwise, and leaves the other signatures and the other names as they
\* were; no other call changes the tables. The tables start empty, so
\* get(name) is the map of exactly the signatures added under name in
\* first-insertion order and get(signature) the definition added last.
C16_GroupedByNameNestedBySignature ==
    [][/\ ( /\ ret'.op = "FnTable.add"
            /\ table_call'[1] \in {"FnHeader", "FnHeaderDef"}
            /\ table_call'[3].kind \in {"FnDef", "BuiltinFnDef"} )
          => /\ ret'.status = "ok"
             /\ GroupedAdd(symbol_table.fn, symbol_table'.fn,
                           HeaderOf(table_call'[1], table_call'[2]),
                           table_call'[3])
       /\ ( /\ ret'.op = "MetaModTable.add"
            /\ table_call'[1] \in {"FnHeader", "FnHeaderDef"}
            /\ table_call'[3].kind = "FnDef" )
          => /\ ret'.status = "ok"
             /\ GroupedAdd(symbol_table.metamod, symbol_table'.metamod,
                           HeaderOf(table_call'[1], table_call'[2]),
                           table_call'[3])
       /\ ret'.op # "FnTable.add" => symbol_table'.fn = symbol_table.fn
       /\ ret'.op # "MetaModTable.add"
          => symbol_table'.metamod = symbol_table.metamod]_vars

\* C16 witness: add(int, int) was added, then add(f64, f64), then
\* add(int, int) again with another definition: the map of add keeps the
\* first-insertion order and holds the later definition
C16_Witness ==
    /\ ret.op = "FnTable.add" /\ ret.status = "ok"
    /\ table_call = <<"FnHeader", HAddII, BFD2>>
    /\ symbol_table.fn
           = << <<"add", << <<HAddII, BFD2>>, <<HAddFF, FD1>> >> >> >>

\* C18 as stated: add on the function, meta-module or modifier table with a
\* definition of the wrong class, or with a key that is not an overload
\* signature, raises an error.
C18_Original ==
    [][(ret'.op \in {"FnTable.add", "MetaModTable.add", "ModifierTable.add"}
        /\ \/ table_call'[1] = "Symbol"
           \/ /\ ret'.op = "FnTable.add"
              /\ table_call'[3].kind \notin {"FnDef", "BuiltinFnDef"}
           \/ /\ ret'.op = "MetaModTable.add"
              /\ table_call'[3].kind # "FnDef"
           \/ /\ ret'.op = "ModifierTable.add"
              /\ table_call'[3].kind # "ModifierDef")
       => ret'.status # "ok"]_vars

\* the number of nodes of the tuple at the path
CountPath(seq, path) == Cardinality({j \in 1..Len(seq) : seq[j].path = path})

\* the node is what a built-in module path and its objects ask for: that
\* path and its identity, an empty reference table, and a symbol table that
\* holds the mapped objects in the table of their kind and nothing else
BuiltinNodeOk(node, mod_path, mod_objs) ==
    LET unit == IR(node.ir)
        st == unit.module.symbol_table
        objs == mod_objs.objs
    IN  /\ node.path = mod_path /\ node.irhash = IRHash(mod_path)
        /\ unit.module.path = mod_path
        /\ unit.ref_table = [types |-> <<>>, fns |-> <<>>]
        /\ st.const = <<>> /\ st.metamod = <<>> /\ st.modifier = <<>>
        /\ IF mod_objs.key_kind = "FnHeader"
           THEN /\ st.type = <<>>
                /\ \A k \in 1..Len(objs) :
                       FnTableGetHeader(st.fn, objs[k][1])
                           = [status |-> "ok", val |-> Some(objs[k][2])]
                /\ \A n \in 1..Len(st.fn) : \A m \in 1..Len(st.fn[n][2]) :
                       \E k \in 1..Len(objs) : objs[k][1] = st.fn[n][2][m][1]
           ELSE /\ st.fn = <<>>
                /\ st.type = objs

\* `after` is `before` with exactly one node more for every path of the
\* registry, each as the registry asks, and no other node more
BuiltinsAdded(before, after, builtin_dict) ==
    /\ Len(after) = Len(before) + Len(builtin_dict)
    /\ \A i \in 1..Len(builtin_dict) :
           /\ CountPath(after, builtin_dict[i][1])
                  = CountPath(before, builtin_dict[i][1]) + 1
           /\ \A j \in 1..Len(after) :
                  after[j].path = builtin_dict[i][1]
                  => BuiltinNodeOk(after[j], builtin_dict[i][1],
                                   builtin_dict[i][2])
    /\ \A j \in 1..Len(before) :
           CountPath(after, before[j].path) >= CountPath(before, before[j].path)

\* C19: add_builtin_modules adds exactly one node per module path of the
\* registry, each with an empty reference table and a symbol table holding
\* exactly the mapped types or functions, and does not build.
\* gen_builtin_modules adds the nodes of both registries; with to_build
\* unset no build() is called: the nodes wait in the building set and
\* is_built and the frozen index stay as they were; with to_build set
\* build() is called on the loaded set: on a built graph it raises the state
\* error, else it raises the PHF error with the set still waiting or
\* freezes the whole loaded set, built exactly when no error was raised.
C19_BulkRegistration ==
    [][/\ \A builtin_dict \in {builtin_fns_path, builtin_types} :
              (ret'.op = "add_builtin_modules"
               /\ add_builtin_modules(builtin_dict))
              => /\ BuiltinsAdded(tmp_nodes, tmp_nodes', builtin_dict)
                 /\ is_built' = is_built /\ nodes' = nodes
       /\ (ret'.op = "gen_builtin_modules" /\ gen_builtin_modules(FALSE))
              => /\ ret'.status = "ok"
                 /\ BuiltinsAdded(tmp_nodes, tmp_nodes',
                                  builtin_fns_path \o builtin_types)
                 /\ is_built' = is_built /\ nodes' = nodes
       /\ (ret'.op = "gen_builtin_modules" /\ gen_builtin_modules(TRUE))
              => IF is_built \/ ret'.err = "phf"
                 THEN /\ ret'.status = "ValueError"
                      /\ is_built \/ ret'.err = "phf"
                      /\ is_built => ret'.err = "state"
                      /\ BuiltinsAdded(tmp_nodes, tmp_nodes',
                                       builtin_fns_path \o builtin_types)
                      /\ is_built' = is_built /\ nodes' = nodes
                 ELSE /\ tmp_nodes' = <<>>
                      /\ BuiltinsAdded(tmp_nodes, nodes'.data,
                                       builtin_fns_path \o builtin_types)
                      /\ is_built' <=> ret'.status = "ok"
                      /\ ret'.err \in {"", "refs"}]_vars

\* C19 witness: gen_builtin_modules without to_build has returned on a graph
\* that held one unit of the user program: four nodes wait, nothing is built
C19_Witness ==
    /\ ret.op = "gen_builtin_modules" /\ ret.status = "ok"
    /\ ~is_built /\ nodes.data = <<>>
    /\ Len(tmp_nodes) = 4 /\ tmp_nodes[1].ir = "A"

\* C20 (as stated): when a file imports a symbol from a second file and the
\* second imports a symbol from the first, the discovery started at the
\* first ends without an error and both files are registered in the graph.
C20_Original ==
    (/\ discovery.root \in {"p", "q", "x", "y"}
     /\ discovery.status # "running")
    => /\ discovery.status = "done"
       /\ \A path \in (IF discovery.root \in {"p", "q"} THEN {"p", "q"}
                        ELSE {"x", "y"}) :
              IRGraphContainsPath(tmp_nodes, path)

\* C21 (as stated): after a discovery that registered the main unit last and
\* a successful build(), the node in the last position of graph.nodes is the
\* one whose identity is main_node.
C21_Original ==
    [][( /\ ~is_built /\ is_built'
         /\ main_node # None
         /\ tmp_nodes[Len(tmp_nodes)].irhash = main_node[1] )
       => nodes'.data[Len(nodes'.data)].irhash = main_node'[1]]_vars

\* one step along the imports from the files of S
ImportedBy(S) ==
    S \cup UNION {{FileImports(path)[k].path :
                      k \in 1..Len(FileImports(path))} : path \in S}

\* the files reachable from root along the imports
RECURSIVE ReachableFrom(_)
ReachableFrom(S) ==
    IF ImportedBy(S) = S THEN S ELSE ReachableFrom(ImportedBy(S))

\* the roots of the acyclic import structures whose imports all resolve
AcyclicRoots == {"r", "s", "z", "w"}

\* parse has just returned to the compiler from a discovery that started at
\* an acyclic root on an empty graph
DiscoveredAcyclic ==
    /\ ret.op = "parse" /\ ret.status = "ok"
    /\ discovery.status = "done" /\ discovery.first = 0
    /\ discovery.root \in AcyclicRoots
    /\ ~is_built

\* the tuple holds every unit reachable from root exactly once and nothing
\* else, each unit after the units it imports, and the root last
RegisteredInImportOrder(seq, root) ==
    /\ \A path \in ReachableFrom({root}) : CountPath(seq, path) = 1
    /\ Len(seq) = Cardinality(ReachableFrom({root}))
    /\ \A i \in 1..Len(seq) :
           \A k \in 1..Len(FileImports(seq[i].path)) :
               \E j \in 1..(i - 1) :
                   seq[j].path = FileImports(seq[i].path)[k].path
    /\ seq # <<>> /\ seq[Len(seq)].path = root

SlotOf(x, a, r, n) ==
    ((BitXor(x * a, ShiftRight(x * a, r))) % get_phf_prime(n)) % n

\* h with (a, r) is injective over the uids of the tuple
InjectiveOver(seq, a, r) ==
    \A i, j \in 1..Len(seq) :
        i # j => SlotOf(ObjHash(seq[i]), a, r, Len(seq))
                     # SlotOf(ObjHash(seq[j]), a, r, Len(seq))

\* C23: the (a, r) that the gen_phf call of build() returns is the first
\* candidate in row-major order (a from 1 upward, for each a every r from 0
\* upward) without a collision: h with (a, r) is injective over the items,
\* and with no pair that is lexicographically smaller.
C23_FirstInjectiveCandidate ==
    [][(BuildStep /\ ~is_built /\ tmp_nodes # <<>> /\ ret'.err # "phf") =>
         LET f == nodes'.phf[1]
         IN  /\ InjectiveOver(tmp_nodes, f.a, f.r)
             /\ \A a \in 1..f.a, r \in 0..(PHF_R_LIMIT - 1) :
                    (a < f.a \/ r < f.r) => ~InjectiveOver(tmp_nodes, a, r)]_vars

\* C23 witness: gen_phf returned for two units a pair that is the first of
\* neither its row nor its column
C23_Witness ==
    /\ ret.op = "build" /\ ret.err # "phf" /\ nodes.phf # None
    /\ Len(nodes.data) = 2
    /\ nodes.phf[1].a >= 2 /\ nodes.phf[1].r >= 1

\* C24: the PHF search always terminates. A call of gen_phf examines at
\* most (A_LIMIT - 1) * R_LIMIT candidates, and a search under way always
\* ends: it returns a result or raises the exhausted-search error, also for
\* items of which no candidate is injective.
C24_SearchTerminates ==
    /\ [](search.tried <= (SearchALimit - 1) * PHF_R_LIMIT)
    /\ [](search.status = "searching"
            => <>(search.status \in {"found", "ValueError"}))
    /\ [](search.status = "ValueError"
            => search.tried = (SearchALimit - 1) * PHF_R_LIMIT)

\* C24 witness: the search over two equal items has raised after every
\* candidate was tried
C24_Witness ==
    /\ search.status = "ValueError"
    /\ Len(search.items) = 2 /\ search.items[1] = search.items[2]
    /\ search.tried = (SearchALimit - 1) * PHF_R_LIMIT
    /\ search.a = SearchALimit - 1 /\ search.r = PHF_R_LIMIT - 1

\* C25 (as stated): build() freezes the whole set. When a build() succeeds,
\* the frozen index holds every unit the graph held before it, those
\* waiting in the building set and those frozen by an earlier build() that
\* failed: no registered unit is dropped.
C25_Original ==
    [][(~is_built /\ is_built') =>
         /\ \A i \in 1..Len(tmp_nodes) :
                \E j \in 1..Len(nodes'.data) : nodes'.data[j] = tmp_nodes[i]
         /\ \A i \in 1..Len(nodes.data) :
                \E j \in 1..Len(nodes'.data) : nodes'.data[j] = nodes.data[i]]_vars

\* C26 (as stated): once the graph is built, get_fns searches the frozen
\* set: for a unit of the frozen index that defines name, get_fns(path,
\* name) returns the overloads of that unit in every later state, also after
\* add_node calls made on the built graph.
C26_Original ==
    is_built =>
        \A i \in 1..Len(nodes.data) :
            \A item \in {"add", "sub"} :
                LET inserted == InsertedOverloads(FnAdds(nodes.data[i].ir), item)
                IN  inserted # <<>>
                    => get_fns_result(nodes, tmp_nodes, nodes.data[i].path,
                                      item) = Ok(inserted)

\* C27 (as stated): indexed lookup never returns a wrong node. For an
\* identity whose uid belongs to no node of the frozen index, nodes[identity]
\* does not return a node whose identity differs from the queried one, and
\* neither get_type nor get_fn answers from such a node.
C27_Original ==
    nodes.phf # None =>
        \A key \in Paths :
            (\A i \in 1..Len(nodes.data) :
                 nodes.data[i].uid # IRHash(key).uid)
            => LET found == NodeSetGetItem(nodes, IRHash(key))
               IN  /\ found.status = "ok"
                      => ~\E i \in 1..Len(nodes.data) :
                             /\ found.val = Some(nodes.data[i])
                             /\ nodes.data[i].irhash.uid # IRHash(key).uid
                   /\ \A importing \in TypeNames :
                          get_type_result(nodes, IRHash(key), importing).val
                              = None
                   /\ \A importing \in Headers :
                          get_fn_result(nodes, IRHash(key), importing).val
                              = None

CheckedRows == 1

\* C29: add_node does not deduplicate: it appends the unit also when the
\* building set already holds a node with the same identity. A building set
\* with two nodes of the same identity cannot be built: build() raises the
\* PHF-search error, is_built stays false and the graph is left as it was;
\* every candidate (a, r) of the first rows is rejected by
\* _gen_res_a_r_phf.
C29_DuplicateIdentityNeverBuilds ==
    [][/\ ret'.op = "add_node" =>
              /\ ret'.status = "ok"
              /\ Len(tmp_nodes') = Len(tmp_nodes) + 1
              /\ SubSeq(tmp_nodes', 1, Len(tmp_nodes)) = tmp_nodes
              /\ tmp_nodes'[Len(tmp_nodes')].irhash = ret'.val[1]
       /\ (BuildStep /\ ~is_built /\ ~DistinctUids(tmp_nodes)) =>
              /\ ret'.status = "ValueError" /\ ret'.err = "phf"
              /\ ~is_built'
              /\ tmp_nodes' = tmp_nodes /\ nodes' = nodes
              /\ \A a \in 1..CheckedRows, r \in 0..(PHF_R_LIMIT - 1) :
                     gen_res_a_r_phf(tmp_nodes, Len(tmp_nodes), a, r,
                                     get_phf_prime(Len(tmp_nodes))) = <<>>]_vars

\* C29 witness: build() has raised the PHF-search error on a building set
\* of three nodes in which the same path was registered twice
C29_Witness ==
    /\ ret.op = "build" /\ ret.err = "phf" /\ ~is_built
    /\ Len(tmp_nodes) = 3
    /\ \E i, j \in 1..Len(tmp_nodes) :
           i # j /\ tmp_nodes[i].path = tmp_nodes[j].path

\* the tuple with its first two items exchanged
SwapFirst(seq) ==
    [k \in 1..Len(seq) |->
        IF k = 1 THEN seq[2] ELSE IF k = 2 THEN seq[1] ELSE seq[k]]

\* the tuple with its first item moved to the end
Rotate(seq) == Append(Tail(seq), Head(seq))

\* C30: the frozen index does not depend on the order of registration. A
\* build() that freezes a building set of two units or more gives the PHF
\* parameters (a, r, prime, n) and the node of every slot that a fresh graph
\* gives in which the same units were registered with the first two
\* exchanged, or with the first one registered last; every order of the
\* same units is reached by these two changes.
C30_IndexIndependentOfOrder ==
    [][(BuildStep /\ ~is_built /\ Len(tmp_nodes) >= 2 /\ ret'.err # "phf") =>
         \A other_order \in {SwapFirst(tmp_nodes), Rotate(tmp_nodes)} :
             LET other == build_result(FALSE, NodeSet(<<>>, None), other_order)
             IN  /\ other.nodes.phf = nodes'.phf
                 /\ other.nodes.data = nodes'.data
                 /\ other.status = ret'.status
                 /\ other.is_built = is_built']_vars

\* C30 witness: a graph built from three units
C30_Witness ==
    /\ is_built /\ ret.op = "build" /\ ret.status = "ok"
    /\ Len(nodes.data) = 3 /\ adds = 3
    /\ nodes.phf # None /\ nodes.phf[1].r >= 1

====
